---- MODULE Spec2Model ----
(***************************************************************************)
(* A model of setup.py, the Port.io infrastructure setup wizard            *)
(* (class PortSetup).                                                      *)
(*                                                                         *)
(* Text.  A Python string is a sequence of tokens.  Every character the    *)
(* parser of load_existing_config looks at is a token of its own: the      *)
(* blank, the double quote, "=", "#", the line break, and also "[", "]"    *)
(* and ",".  Any other token is an atom: a piece of text that holds none   *)
(* of these characters (an atom of a comment may hold blanks inside, never *)
(* at its ends).  strip, split and startswith then act on tokens exactly   *)
(* as they act on characters.  The atoms of the model are chosen so that   *)
(* no string has two tokenisations.                                        *)
(*                                                                         *)
(* Files.  The configuration file and the backup files hold a text or      *)
(* NoFile.  Path.rename is modelled with its POSIX meaning (an existing    *)
(* target is replaced silently).                                           *)
(***************************************************************************)
EXTENDS Integers, Sequences, FiniteSets, TLC

SP == " "
QT == "\""
EQ == "="
HASH == "#"
NL == "\n"
LBR == "["
RBR == "]"
COMMA == ","

NoFile == <<"<no file>">>

----------------------------------------------------------------------------
(* Python str and dict primitives *)

Range(s) == {s[i] : i \in 1..Len(s)}

\* str.strip(chars): drop the leading and trailing tokens that are in chars
StripSet(s, chars) ==
  LET keep == {i \in 1..Len(s) : s[i] \notin chars}
  IN IF keep = {} THEN <<>>
     ELSE LET lo == CHOOSE i \in keep : \A j \in keep : i <= j
              hi == CHOOSE i \in keep : \A j \in keep : j <= i
          IN SubSeq(s, lo, hi)

Strip(s) == StripSet(s, {SP})

StripQuotes(s) == StripSet(s, {QT})

\* str.split(sep): the pieces between the occurrences of sep, in order
Split(t, sep) ==
  LET at == {i \in 1..Len(t) : t[i] = sep}
      n == Cardinality(at)
      \* the k-th occurrence of sep; the ends of the text stand for 0 and n + 1
      pos(k) == IF k = 0 THEN 0
                ELSE IF k = n + 1 THEN Len(t) + 1
                ELSE CHOOSE i \in at : Cardinality({j \in at : j < i}) = k - 1
  IN [k \in 1..(n + 1) |-> SubSeq(t, pos(k - 1) + 1, pos(k) - 1)]

SplitLines(t) == Split(t, NL)

\* "\n".join(lines)
RECURSIVE JoinLines(_)
JoinLines(lines) ==
  IF lines = <<>> THEN <<>>
  ELSE IF Len(lines) = 1 THEN lines[1]
  ELSE lines[1] \o <<NL>> \o JoinLines(Tail(lines))

\* the strings ss[lo], ..., ss[hi] one after the other
RECURSIVE ConcatRange(_, _, _)
ConcatRange(ss, lo, hi) ==
  IF lo > hi THEN <<>>
  ELSE IF lo = hi THEN ss[lo]
  ELSE LET mid == (lo + hi) \div 2
       IN ConcatRange(ss, lo, mid) \o ConcatRange(ss, mid + 1, hi)

Concat(ss) == ConcatRange(ss, 1, Len(ss))

\* a dict is a function from its keys (strings) to its values (strings)
EmptyDict == [k \in {} |-> <<>>]

\* dict.update(d)
Update(c, d) == d @@ c

\* dict[k] = v
Put(c, k, v) == (k :> v) @@ c

\* the truth value of dict.get(k): the key is there with a non-empty value
Has(c, k) == k \in DOMAIN c /\ c[k] # <<>>

\* dict.get(k, default)
GetOr(c, k, default) == IF k \in DOMAIN c THEN c[k] ELSE default

\* a key of the configuration, as the string it is
K(name) == <<name>>

----------------------------------------------------------------------------
(* load_existing_config: the parser *)

\* IsAssignment without the test for '#'
IsAssignmentNoCommentCheck(rawline) ==
  LET line == Strip(rawline)
  IN line # <<>> /\ EQ \in Range(line)

\* setup.py:60-61: the stripped line is taken if it is not empty, does not
\* start with '#' and holds an '='
IsAssignment(rawline) ==
  LET line == Strip(rawline)
  IN line # <<>> /\ line[1] # HASH /\ EQ \in Range(line)

\* line.split('=', 1): the place of the first '='
FirstEq(line) ==
  CHOOSE i \in 1..Len(line) : line[i] = EQ /\ \A j \in 1..(i - 1) : line[j] # EQ

\* setup.py:62-63: key.strip()
KeyOf(rawline) ==
  LET line == Strip(rawline)
  IN Strip(SubSeq(line, 1, FirstEq(line) - 1))

\* ValueOf without .strip('"')
ValueOfKeepsQuotes(rawline) ==
  LET line == Strip(rawline)
  IN Strip(SubSeq(line, FirstEq(line) + 1, Len(line)))

\* setup.py:64: value.strip().strip('"')
ValueOf(rawline) ==
  LET line == Strip(rawline)
  IN StripQuotes(Strip(SubSeq(line, FirstEq(line) + 1, Len(line))))

\* The configuration after load_existing_config has read `content` into
\* cfg (setup.py:59-65).  The loop assigns self.config[key] = value line
\* after line, so each key ends with the value of the last line that
\* assigns it, and the keys no line assigns keep what cfg had.
ParseConfig(cfg, content) ==
  LET lines == SplitLines(content)
      taken == {i \in 1..Len(lines) : IsAssignment(lines[i])}
      lastOf(k) == CHOOSE i \in taken :
                     /\ KeyOf(lines[i]) = k
                     /\ \A j \in taken : KeyOf(lines[j]) = k => j <= i
  IN [k \in {KeyOf(lines[i]) : i \in taken} |-> ValueOf(lines[lastOf(k)])] @@ cfg

----------------------------------------------------------------------------
(* write_config_file: the text it writes *)

Sp(n) == [i \in 1..n |-> SP]

\* f'{key}{blanks}= "{value}"\n' and the same with a blank line after it
Assign(key, blanks, value) ==
  <<key>> \o Sp(blanks) \o <<EQ, SP, QT>> \o value \o <<QT, NL>>

AssignEnd(key, blanks, value) == Assign(key, blanks, value) \o <<NL>>

CommentLine(text) == <<HASH, SP, text, NL>>

\* one f.write of write_config_file: the keys its f-string reads with
\* self.config[...] (a missing one raises KeyError before anything is
\* written by this statement) and the text it writes
Stmt(needs, text) == [needs |-> {K(n) : n \in needs}, text |-> text]

\* self.config[name] inside an f-string whose statement lists name in needs
V(c, name) == GetOr(c, K(name), <<>>)

\* one statement of a group section: f'name = "{self.config["name"]}"\n'
KeyStmt(c, name, blanks) == Stmt({name}, Assign(name, blanks, V(c, name)))

KeyStmtEnd(c, name, blanks) == Stmt({name}, AssignEnd(name, blanks, V(c, name)))

HeaderStmts(t) ==
  << Stmt({}, CommentLine("Port.io Infrastructure Configuration")),
     Stmt({}, <<HASH, SP, "Generated by Python setup script on", SP, ToString(t), NL, NL>>) >>

CoreStmts(c) ==
  << Stmt({}, CommentLine("Port.io Configuration (Required)")),
     KeyStmt(c, "port_client_id", 5),
     KeyStmt(c, "port_client_secret", 1),
     KeyStmtEnd(c, "port_base_url", 6),
     Stmt({}, CommentLine("Environment Configuration")),
     KeyStmt(c, "environment", 1),
     KeyStmtEnd(c, "team_email", 2) >>

AwsStmts(c) ==
  IF K("aws_access_key_id") \in DOMAIN c
  THEN << Stmt({}, CommentLine("AWS Configuration")),
          KeyStmt(c, "aws_access_key_id", 5),
          KeyStmt(c, "aws_secret_access_key", 1),
          KeyStmtEnd(c, "aws_region", 11) >>
  ELSE <<>>

AzureStmts(c) ==
  IF K("azure_client_id") \in DOMAIN c
  THEN << Stmt({}, CommentLine("Azure Configuration")),
          KeyStmt(c, "azure_client_id", 7),
          KeyStmt(c, "azure_client_secret", 3),
          KeyStmt(c, "azure_tenant_id", 7),
          KeyStmtEnd(c, "azure_subscription_id", 1) >>
  ELSE <<>>

\* the private key is written as a heredoc: an opening line, the value as
\* it is, a line EOF
GithubStmts(c) ==
  IF K("github_app_id") \in DOMAIN c
  THEN << Stmt({}, CommentLine("GitHub Configuration")),
          KeyStmt(c, "github_app_id", 10),
          Stmt({}, <<"github_private_key">> \o Sp(5) \o <<EQ, SP, "<<-EOF", NL>>),
          Stmt({"github_private_key"}, V(c, "github_private_key") \o <<NL>>),
          Stmt({}, <<"EOF", NL>>),
          KeyStmt(c, "github_installation_id", 1),
          KeyStmtEnd(c, "github_actions_webhook_url", 1) >>
  ELSE <<>>

AzdoStmts(c) ==
  IF K("azdo_organization_url") \in DOMAIN c
  THEN << Stmt({}, CommentLine("Azure DevOps Configuration")),
          KeyStmt(c, "azdo_organization_url", 1),
          KeyStmtEnd(c, "azdo_personal_token", 3) >>
  ELSE <<>>

SnykStmts(c) ==
  IF K("snyk_token") \in DOMAIN c
  THEN << Stmt({}, CommentLine("Snyk Configuration")),
          KeyStmt(c, "snyk_token", 8),
          KeyStmtEnd(c, "snyk_organization", 1) >>
  ELSE <<>>

FixedStmts ==
  << Stmt({}, CommentLine("Optional Configuration")),
     Stmt({}, <<"enable_audit_logging">> \o Sp(5) \o <<EQ, SP, "true", NL>>),
     Stmt({}, <<"drift_detection_schedule", SP, EQ, SP, QT, "0 2 * * 1", QT, SP, SP,
                HASH, SP, "Weekly on Monday at 2 AM", NL>>),
     Stmt({}, <<"sync_schedule">> \o Sp(11) \o <<EQ, SP, QT, "0 1 * * *", QT, SP, SP, SP,
                HASH, SP, "Daily at 1 AM", NL, NL>>) >>

\* ListItemStmts with the items last to first
ListItemStmtsReversed(items) ==
  [i \in 1..Len(items) |->
     Stmt({}, <<SP, SP, QT>> \o items[Len(items) + 1 - i] \o <<QT, COMMA, NL>>)]

\* f'  "{item}",\n' for each item, in the order of the list
ListItemStmts(items) ==
  [i \in 1..Len(items) |-> Stmt({}, <<SP, SP, QT>> \o items[i] \o <<QT, COMMA, NL>>)]

ListStmts(name, items) ==
  << Stmt({}, <<name, SP, EQ, SP, LBR, NL>>) >>
  \o ListItemStmts(items)
  \o << Stmt({}, <<RBR, NL, NL>>) >>

TeamStmts(c, teams, recipients) ==
  << Stmt({}, CommentLine("Team Configuration")) >>
  \o ListStmts("available_teams", teams)
  \o ListStmts("approval_recipients", recipients)
  \o << Stmt({}, Assign("github_organization", 1, V(c, "github_organization"))),
        Stmt({}, AssignEnd("github_actions_repo", 1, V(c, "github_actions_repo"))) >>

WebhookStmts ==
  << Stmt({}, CommentLine("Webhook URLs for actions (update these with your actual endpoints)")),
     Stmt({}, Assign("dora_webhook_url", 12, <<"https://your-dora-metrics-service.com/webhook">>)),
     Stmt({}, Assign("dora_collection_webhook_url", 1, <<"https://your-dora-collector.com/webhook">>)),
     Stmt({}, Assign("port_webhook_url", 11, <<"https://your-port-webhook-handler.com/webhook">>)) >>

\* the f.write statements of the with block, in the order they run
Statements(c, teams, recipients, t) ==
  HeaderStmts(t) \o CoreStmts(c) \o AwsStmts(c) \o AzureStmts(c) \o GithubStmts(c)
  \o AzdoStmts(c) \o SnykStmts(c) \o FixedStmts \o TeamStmts(c, teams, recipients)
  \o WebhookStmts

\* The with block: the statements run in order; the first whose f-string
\* reads a missing key raises KeyError, and the file keeps what was written
\* before it.  ok tells whether the block ran to its end, missing is the
\* key of the KeyError if it did not.
WriteOut(c, teams, recipients, t) ==
  LET st == Statements(c, teams, recipients, t)
      bad == {i \in 1..Len(st) : ~(st[i].needs \subseteq DOMAIN c)}
      n == IF bad = {} THEN Len(st)
           ELSE (CHOOSE i \in bad : \A j \in bad : i <= j) - 1
  IN [ok |-> bad = {},
      text |-> Concat([i \in 1..n |-> st[i].text]),
      missing |-> IF bad = {} THEN <<>>
                  ELSE CHOOSE k \in st[n + 1].needs \ DOMAIN c : TRUE]

----------------------------------------------------------------------------
(* validate_email *)

AT == "@"
DOT == "."

\* the atoms of the model that are words of letters, digits and "-"
WordAtoms == {"team", "ops", "x", "io", "acme", "old", "not-an-email"}

\* the atoms of the model that match [a-zA-Z]{2,}
TldAtoms == {"team", "ops", "io", "acme", "old"}

\* validate_email with a pattern that any non-empty text matches
validate_email_any_text(email) == email # <<>>

\* re.match(r'^[a-zA-Z0-9._%+-]+@[a-zA-Z0-9.-]+\.[a-zA-Z]{2,}$', email): a
\* non-empty local part, one "@", a non-empty domain, and after its last "."
\* two letters or more
validate_email(email) ==
  LET n == Len(email)
      ats == {i \in 1..n : email[i] = AT}
  IN /\ n >= 5
     /\ Cardinality(ats) = 1
     /\ LET a == CHOOSE i \in ats : TRUE
        IN /\ a >= 2
           /\ a <= n - 3
           /\ \A i \in 1..(a - 1) : email[i] \in WordAtoms \cup {DOT}
           /\ \A i \in (a + 1)..(n - 2) : email[i] \in WordAtoms \cup {DOT}
           /\ email[n - 1] = DOT
           /\ email[n] \in TldAtoms

----------------------------------------------------------------------------
(* What the user may type, and what the outside world may answer *)

MaxMenu == 2
MaxCommits == 2

YesNo == {"y", "n"}

\* Port.io credentials: the pair the API accepts, and a pair it rejects
GoodPortPair == [id |-> <<"port-id-new">>, secret |-> <<"port-secret-new">>]
BadPortPair == [id |-> <<"port-id-bad">>, secret |-> <<"port-secret-bad">>]
PortPairs == {GoodPortPair, BadPortPair}

\* the pairs for which the token endpoint answers 200 with an accessToken
ValidPortPairs ==
  {GoodPortPair, [id |-> <<"port-id-old">>, secret |-> <<"port-secret-old">>]}

\* what requests.post may do for a pair: answer (200 with a token for a
\* valid pair, anything else for another), or raise RequestException
PortReplies(pair) ==
  (IF pair \in ValidPortPairs THEN {"token"} ELSE {"rejected"}) \cup {"unreachable"}

EnvChoices == {"1", "2", "3", "9"}

GoodEmail == <<"team", AT, "x", DOT, "io">>
BadEmail == <<"not-an-email">>

\* answers that are not addresses: no "@", no top-level domain, a top-level
\* domain of one letter
TeamEmails == {GoodEmail, BadEmail, <<"team", AT, "x">>, <<"team", AT, "io", DOT, "x">>}

AwsTuples ==
  {[key |-> <<"AKIA-NEW">>, secret |-> <<"aws-secret-new">>, region |-> r] :
     r \in {<<>>, <<"eu-west-1">>}}

\* what `aws sts get-caller-identity` may do: exit 0, exit non-zero, not be
\* installed or time out
AwsReplies == {"zero", "nonzero", "unavailable"}

\* the lines pasted for the GitHub App private key (the second ends with
\* base64 padding)
KeyLines == << <<"MIIEowIBAAKCAQEA">>, <<"q8RkT0", EQ, EQ>> >>

GithubAnswers ==
  {[app_id |-> <<"12345">>, installation_id |-> <<"67890">>, lines |-> KeyLines,
    organization |-> <<"acme">>, repo |-> r] : r \in {<<>>}}

AzureAnswers ==
  {[client_id |-> <<"az-client">>, client_secret |-> <<"az-secret">>,
    tenant_id |-> <<"az-tenant">>, subscription_id |-> <<"az-sub">>]}

AzdoAnswers == {[url |-> <<"https://dev.azure.com/acme">>, token |-> <<"azdo-pat">>]}

SnykAnswers == {[token |-> <<"snyk-token">>, organization |-> <<"snyk-org">>]}

TeamLists == {<<>>, << <<"platform">>, <<"backend">> >>}

\* the answers to "Email address:": none, or one that is no address and two
\* that are
RecipientLists == {<<>>, << BadEmail, <<"ops", AT, "x", DOT, "io">>, GoodEmail >>}

----------------------------------------------------------------------------
(* The dicts the gather_* methods build *)

\* {name: value, ...} from a sequence of <<name, value>>
MkDict(pairs) ==
  [k \in {K(pairs[i][1]) : i \in 1..Len(pairs)} |->
     (CHOOSE q \in Range(pairs) : K(q[1]) = k)[2]]

PortBaseUrl == <<"https://api.getport.io">>

PortResult(id, secret) ==
  MkDict(<< <<"port_client_id", id>>, <<"port_client_secret", secret>>,
            <<"port_base_url", PortBaseUrl>> >>)

\* env_map with the answer taken as the environment, whatever it is
env_map_without_check(choice) == <<choice>>

\* env_map = {'1': 'dev', '2': 'staging', '3': 'prod'}
env_map(choice) ==
  CASE choice = "1" -> <<"dev">>
    [] choice = "2" -> <<"staging">>
    [] choice = "3" -> <<"prod">>
    [] OTHER -> <<>>

EnvResult(environment, team_email) ==
  MkDict(<< <<"environment", environment>>, <<"team_email", team_email>> >>)

DefaultRegion == <<"us-west-2">>

\* region = input(...).strip() or "us-west-2"
AwsResult(key, secret, region) ==
  MkDict(<< <<"aws_access_key_id", key>>, <<"aws_secret_access_key", secret>>,
            <<"aws_region", IF region = <<>> THEN DefaultRegion ELSE region>> >>)

DefaultRepo == <<"port-infrastructure">>

WebhookUrl(organization, repo) ==
  <<"https://api.github.com/repos/">> \o organization \o <<"/">> \o repo
  \o <<"/dispatches">>

\* repo = repo or "port-infrastructure"; private_key = "\n".join(lines)
GithubResult(a) ==
  LET repo == IF a.repo = <<>> THEN DefaultRepo ELSE a.repo
  IN MkDict(<< <<"github_app_id", a.app_id>>,
               <<"github_installation_id", a.installation_id>>,
               <<"github_private_key", JoinLines(a.lines)>>,
               <<"github_organization", a.organization>>,
               <<"github_actions_repo", repo>>,
               <<"github_actions_webhook_url", WebhookUrl(a.organization, repo)>> >>)

AzureResult(a) ==
  MkDict(<< <<"azure_client_id", a.client_id>>, <<"azure_client_secret", a.client_secret>>,
            <<"azure_tenant_id", a.tenant_id>>,
            <<"azure_subscription_id", a.subscription_id>> >>)

AzdoResult(a) ==
  MkDict(<< <<"azdo_organization_url", a.url>>, <<"azdo_personal_token", a.token>> >>)

SnykResult(a) ==
  MkDict(<< <<"snyk_token", a.token>>, <<"snyk_organization", a.organization>> >>)

DefaultTeams ==
  << <<"platform">>, <<"backend">>, <<"frontend">>, <<"mobile">>, <<"data">> >>

----------------------------------------------------------------------------
(* The disk before the wizard starts *)

ConfigPath == <<"terraform.tfvars">>

\* f"terraform.tfvars.backup.{datetime.now().strftime('%Y%m%d_%H%M%S')}"
BackupPath(t) == <<"terraform.tfvars.backup.", ToString(t)>>

\* the second at which PortSetup() is constructed; the file found was written
\* at second 0
StartTime == 1

\* the configuration path, and the backup names of the seconds of the run
Paths == {ConfigPath} \cup {BackupPath(t) : t \in StartTime..(StartTime + MaxCommits)}

OldEmail == <<"old", AT, "x", DOT, "io">>

\* configurations an earlier run of the wizard ended with
PrevMinimal ==
  Update(PortResult(<<"port-id-old">>, <<"port-secret-old">>),
         EnvResult(<<"dev">>, OldEmail))

PrevFull ==
  Update(Update(Update(Update(PrevMinimal,
    AwsResult(<<"AKIA-OLD">>, <<"aws-secret-old">>, <<>>)),
    GithubResult([app_id |-> <<"111">>, installation_id |-> <<"222">>,
                  lines |-> << <<"MIIEoldkey">>, <<"Zm9v", EQ>> >>,
                  organization |-> <<"acme">>, repo |-> <<>>])),
    AzdoResult([url |-> <<"https://dev.azure.com/old">>, token |-> <<"azdo-old">>])),
    SnykResult([token |-> <<"snyk-old">>, organization |-> <<"snyk-org-old">>]))

NoCommit == [written |-> FALSE, cfg |-> EmptyDict, teams |-> <<>>, recipients |-> <<>>]

Commit(c, teams, recipients) ==
  [written |-> TRUE, cfg |-> c, teams |-> teams, recipients |-> recipients]

\* a file as a person may have edited it: the client id alone
HandEditedPartial == Assign("port_client_id", 1, <<"abc">>)

\* a file a person has added one line to: the required groups, and the
\* access key of AWS without its secret
HandEditedAwsAlone ==
  Assign("port_client_id", 1, <<"port-id-old">>)
  \o Assign("port_client_secret", 1, <<"port-secret-old">>)
  \o Assign("port_base_url", 1, PortBaseUrl)
  \o Assign("environment", 1, <<"dev">>)
  \o Assign("team_email", 1, OldEmail)
  \o Assign("aws_access_key_id", 1, <<"AKIA-OLD">>)

\* a file a person wrote with the four settings the wizard asks for: the
\* base URL commented out in an indented line, the secret indented and
\* without blanks around '=', an empty line, the environment set twice, the
\* second time without quotes
HandEditedNoBaseUrl ==
  <<SP, SP, HASH, SP, "port_base_url", SP, EQ, SP, QT>> \o PortBaseUrl \o <<QT, NL>>
  \o Assign("port_client_id", 1, <<"port-id-old">>)
  \o <<SP, SP, "port_client_secret", EQ, QT, "port-secret-old", QT, SP, NL>>
  \o <<NL>>
  \o Assign("environment", 1, <<"prod">>)
  \o <<"environment", SP, EQ, SP, "dev", NL>>
  \o Assign("team_email", 1, OldEmail)

\* a file in which a person has put a team_email that is no address
HandEditedBadEmail ==
  Assign("port_client_id", 1, <<"port-id-old">>)
  \o Assign("port_client_secret", 1, <<"port-secret-old">>)
  \o Assign("port_base_url", 1, PortBaseUrl)
  \o Assign("environment", 1, <<"dev">>)
  \o Assign("team_email", 1, BadEmail)

\* the disks the wizard may find: no file, a hand-edited file, a file an
\* earlier run wrote (at second 0)
InitDisks ==
  { [text |-> NoFile, origin |-> NoCommit],
    [text |-> HandEditedPartial, origin |-> NoCommit],
    [text |-> HandEditedAwsAlone, origin |-> NoCommit],
    [text |-> HandEditedNoBaseUrl, origin |-> NoCommit],
    [text |-> HandEditedBadEmail, origin |-> NoCommit],
    [text |-> WriteOut(PrevMinimal, DefaultTeams, <<OldEmail>>, 0).text,
     origin |-> Commit(PrevMinimal, DefaultTeams, <<OldEmail>>)],
    [text |-> WriteOut(PrevFull, << <<"platform">>, <<"backend">> >>, <<OldEmail>>, 0).text,
     origin |-> Commit(PrevFull, << <<"platform">>, <<"backend">> >>, <<OldEmail>>)] }

----------------------------------------------------------------------------
(* The state of one run of the wizard *)

VARIABLES
  pc,           \* where run() stands: the prompt or step that comes next
  ret,          \* where the gather_* call in progress returns to, and what
                \* its caller does with the dict it returns
  config,       \* self.config
  files,        \* the disk: the text at each path, or NoFile
  now,          \* datetime.now(), in seconds
  backup_file,  \* self.backup_file
  last,         \* the last answers of the user and what became of them
  rounds,       \* how many components the menu of interactive_config was asked for
  keepAll,      \* whether the first answer to the menu was 0
  mode,         \* "first", "fresh" or "update", once run() has decided
  commits,      \* the calls of write_config_file so far
  preFile,      \* the text at the configuration path when the last call of
                \* write_config_file began
  teams,        \* the local `teams` of write_config_file
  committed,    \* what the last complete write of the file was given
  origin,       \* what the file found at the start was written from
  tofuLog,      \* the tofu commands run, in order, each with its exit status
  clientFile,   \* whether port_client.py has been written
  backupLog,    \* the targets of the renames done, in order
  error,        \* the exception that ended the run, if one did
  found,        \* the components check_existing_config reported as found
  tools         \* the tools that answer `<tool> --version` on this machine

vars ==
  <<pc, ret, config, files, now, backup_file, last, rounds, keepAll, mode, commits, preFile,
    teams, committed, origin, tofuLog, clientFile, backupLog, error,
    found, tools>>

\* what no gather_* method touches
quiet ==
  <<files, now, backup_file, commits, preFile, teams, committed, origin, tofuLog,
    clientFile, backupLog>>

NoRet == [label |-> "none", merge |-> "no"]

NoLast == [op |-> "none", outcome |-> "none", vals |-> EmptyDict]

Answer(op, outcome, vals) == [op |-> op, outcome |-> outcome, vals |-> vals]

NoError == [type |-> "none", key |-> <<>>]

\* self.config[key] for a key the dict does not hold
KeyError(key) == [type |-> "KeyError", key |-> key]

\* required_tools of validate_dependencies
RequiredTools == {"tofu", "curl", "git"}

\* the machines the wizard may run on: all the tools, no tofu, tofu alone
ToolSets == {RequiredTools, {"curl", "git"}, {"tofu"}}

\* PortSetup() on a disk the wizard may find
Init ==
  \E d \in InitDisks :
    /\ tools \in ToolSets
    /\ pc = "start"
    /\ ret = NoRet
    /\ config = EmptyDict
    /\ files = [p \in Paths |-> IF p = ConfigPath THEN d.text ELSE NoFile]
    /\ now = StartTime
    /\ backup_file = BackupPath(StartTime)
    /\ last = NoLast
    /\ rounds = 0
    /\ keepAll = FALSE
    /\ mode = "none"
    /\ commits = 0
    /\ preFile = NoFile
    /\ teams = <<>>
    /\ committed = NoCommit
    /\ origin = d.origin
    /\ tofuLog = <<>>
    /\ clientFile = FALSE
    /\ backupLog = <<>>
    /\ error = NoError
    /\ found = {}

----------------------------------------------------------------------------
(* Presence checks: where each gather_* method starts *)

\* PortPresent with the client id alone looked at
PortPresentIdAlone(c) == Has(c, K("port_client_id"))

\* setup.py:98, 173, 287 and 835: the test all four places make
PortPresent(c) == Has(c, K("port_client_id")) /\ Has(c, K("port_client_secret"))

EnvPresent(c) == Has(c, K("environment")) /\ Has(c, K("team_email"))

PortEntry(c) == IF PortPresent(c) THEN "port_keep" ELSE "port_input"

EnvEntry(c) == IF EnvPresent(c) THEN "env_keep" ELSE "env_choice"

AwsEntry(c) == IF Has(c, K("aws_access_key_id")) THEN "aws_keep" ELSE "aws_configure"

GithubEntry(c) == IF Has(c, K("github_app_id")) THEN "github_keep" ELSE "github_configure"

\* setup.py:98-114: the components check_existing_config prints as found
CheckExistingConfig(c) ==
  {"port" : x \in IF PortPresent(c) THEN {1} ELSE {}}
  \cup {"aws" : x \in IF Has(c, K("aws_access_key_id")) THEN {1} ELSE {}}
  \cup {"github" : x \in IF Has(c, K("github_app_id")) THEN {1} ELSE {}}
  \cup {"azure" : x \in IF Has(c, K("azure_client_id")) THEN {1} ELSE {}}
  \cup {"azdo" : x \in IF Has(c, K("azdo_organization_url")) THEN {1} ELSE {}}
  \cup {"snyk" : x \in IF Has(c, K("snyk_token")) THEN {1} ELSE {}}

\* Merged with every caller updating self.config with the dict returned
MergedByEveryCaller(c, result) == Update(c, result)

\* what the caller does with the returned dict: config.update(result)
\* ("yes"), nothing ("no"), or the update of menu choices 6 and 7, made only
\* if the dict holds the key the choice is about
Merged(c, result) ==
  CASE ret.merge = "yes" -> Update(c, result)
    [] ret.merge = "azdo" ->
         IF K("azdo_organization_url") \in DOMAIN result THEN Update(c, result) ELSE c
    [] ret.merge = "snyk" ->
         IF K("snyk_token") \in DOMAIN result THEN Update(c, result) ELSE c
    [] OTHER -> c

\* a gather_* method returns `result`, self.config being c by then
Return(c, result) ==
  /\ config' = Merged(c, result)
  /\ pc' = ret.label
  /\ ret' = NoRet

\* an exception nobody catches ends the run with a traceback
Crash(exception) ==
  /\ pc' = "crashed"
  /\ ret' = NoRet
  /\ error' = exception

----------------------------------------------------------------------------
(* run(), up to the gathering *)

\* setup.py:204-213: the required tools that do not answer
missing_tools == RequiredTools \ tools

\* ValidateDependencies with the result of validate_dependencies not looked at
ValidateDependenciesIgnored ==
  /\ pc = "start"
  /\ pc' = "load"
  /\ UNCHANGED <<ret, config, last, rounds, keepAll, mode>>
  /\ UNCHANGED quiet
  /\ UNCHANGED <<error, found, tools>>

\* setup.py:808-809: validate_dependencies, and sys.exit(1) if a tool is missing
ValidateDependencies ==
  /\ pc = "start"
  /\ pc' = IF missing_tools = {} THEN "load" ELSE "exit1"
  /\ UNCHANGED <<ret, config, last, rounds, keepAll, mode>>
  /\ UNCHANGED quiet
  /\ UNCHANGED <<error, found, tools>>

\* setup.py:812-832 up to the first prompt: load_existing_config and
\* check_existing_config.  Without a readable file the initial setup starts
\* with gather_port_config.
LoadExistingConfig ==
  /\ pc = "load"
  /\ \E readable \in BOOLEAN :
       IF files[ConfigPath] # NoFile /\ readable
       THEN /\ config' = ParseConfig(config, files[ConfigPath])
            /\ found' = CheckExistingConfig(config')
            /\ pc' = "mode_prompt"
            /\ UNCHANGED <<ret, mode>>
       ELSE /\ mode' = "first"
            /\ pc' = PortEntry(config)
            /\ ret' = [label |-> "init_env", merge |-> "yes"]
            /\ UNCHANGED <<config, found>>
  /\ UNCHANGED <<last, rounds, keepAll>>
  /\ UNCHANGED quiet
  /\ UNCHANGED error
  /\ UNCHANGED tools

\* ModePrompt with self.config left as loaded on 'fresh'
ModePromptKeepsConfig ==
  /\ pc = "mode_prompt"
  /\ \E answer \in {"update", "fresh"} :
       IF answer = "fresh"
       THEN /\ mode' = "fresh"
            /\ pc' = PortEntry(config)
            /\ ret' = [label |-> "init_env", merge |-> "yes"]
            /\ UNCHANGED config
       ELSE /\ mode' = "update"
            /\ pc' = "menu"
            /\ UNCHANGED <<config, ret>>
  /\ UNCHANGED <<last, rounds, keepAll>>
  /\ UNCHANGED quiet
  /\ UNCHANGED <<error, found, tools>>

\* setup.py:816-827: update or fresh
ModePrompt ==
  /\ pc = "mode_prompt"
  /\ \E answer \in {"update", "fresh"} :
       IF answer = "fresh"
       THEN /\ mode' = "fresh"
            /\ config' = EmptyDict
            /\ pc' = PortEntry(EmptyDict)
            /\ ret' = [label |-> "init_env", merge |-> "yes"]
       ELSE /\ mode' = "update"
            /\ pc' = "menu"
            /\ UNCHANGED <<config, ret>>
  /\ UNCHANGED <<last, rounds, keepAll>>
  /\ UNCHANGED quiet
  /\ UNCHANGED <<error, found, tools>>

\* setup.py:823 and 831: self.config.update(self.gather_environment_config())
InitEnv ==
  /\ pc = "init_env"
  /\ pc' = EnvEntry(config)
  /\ ret' = [label |-> "cm_port", merge |-> "yes"]
  /\ UNCHANGED <<config, last, rounds, keepAll, mode>>
  /\ UNCHANGED quiet
  /\ UNCHANGED <<error, found, tools>>

----------------------------------------------------------------------------
(* gather_port_config *)

\* test_port_credentials with a request that fails counted as a success
test_port_credentials_lenient(reply) == reply \in {"token", "unreachable"}

\* test_port_credentials: True only for a 200 answer that holds a token
test_port_credentials(reply) == reply = "token"

\* setup.py:287-296: the offer to keep the credentials found
GatherPortKeep ==
  /\ pc = "port_keep"
  /\ \E keep \in YesNo :
       IF keep = "y"
       THEN /\ Return(config, PortResult(config[K("port_client_id")],
                                         config[K("port_client_secret")]))
            /\ last' = Answer("port", "kept", EmptyDict)
       ELSE /\ pc' = "port_input"
            /\ last' = Answer("port", "replace", EmptyDict)
            /\ UNCHANGED <<config, ret>>
  /\ UNCHANGED <<rounds, keepAll, mode>>
  /\ UNCHANGED quiet
  /\ UNCHANGED <<error, found, tools>>

\* PortAccept with port_base_url left out of the update
PortAcceptDropsUrl(pair) ==
  /\ Return(Update(config, [k \in {K("port_client_id"), K("port_client_secret")} |->
                              PortResult(pair.id, pair.secret)[k]]),
            EmptyDict)
  /\ last' = Answer("port", "accepted", PortResult(pair.id, pair.secret))

\* the body of the loop at setup.py:304-317 for a reply that tests True
PortAccept(pair) ==
  /\ Return(Update(config, PortResult(pair.id, pair.secret)),
            PortResult(pair.id, pair.secret))
  /\ last' = Answer("port", "accepted", PortResult(pair.id, pair.secret))

\* PortReject with the update done before the test
PortRejectStoresAnyway(pair, reply) ==
  /\ config' = Update(config, PortResult(pair.id, pair.secret))
  /\ last' = Answer("port", reply, PortResult(pair.id, pair.secret))
  /\ UNCHANGED <<pc, ret>>

\* the body of the loop for a reply that tests False: a warning, and the
\* loop goes round
PortReject(pair, reply) ==
  /\ last' = Answer("port", reply, PortResult(pair.id, pair.secret))
  /\ UNCHANGED <<pc, ret, config>>

\* setup.py:304-317: one round of the input loop
GatherPortInput ==
  /\ pc = "port_input"
  /\ \E pair \in PortPairs : \E reply \in PortReplies(pair) :
       IF test_port_credentials(reply) THEN PortAccept(pair) ELSE PortReject(pair, reply)
  /\ UNCHANGED <<rounds, keepAll, mode>>
  /\ UNCHANGED quiet
  /\ UNCHANGED <<error, found, tools>>

----------------------------------------------------------------------------
(* gather_environment_config *)

\* setup.py:324-333
GatherEnvKeep ==
  /\ pc = "env_keep"
  /\ \E keep \in YesNo :
       IF keep = "y"
       THEN /\ Return(config, EnvResult(config[K("environment")], config[K("team_email")]))
            /\ last' = Answer("env", "kept", EmptyDict)
       ELSE /\ pc' = "env_choice"
            /\ last' = Answer("env", "replace", EmptyDict)
            /\ UNCHANGED <<config, ret>>
  /\ UNCHANGED <<rounds, keepAll, mode>>
  /\ UNCHANGED quiet
  /\ UNCHANGED <<error, found, tools>>

\* setup.py:342-348: the loop that asks for 1, 2 or 3
GatherEnvChoice ==
  /\ pc = "env_choice"
  /\ \E choice \in EnvChoices :
       IF env_map(choice) # <<>>
       THEN /\ pc' = "env_email"
            /\ last' = Answer("env", "chosen", MkDict(<< <<"environment", env_map(choice)>> >>))
       ELSE /\ last' = Answer("env", "bad_choice", EmptyDict)
            /\ UNCHANGED pc
  /\ UNCHANGED <<config, ret, rounds, keepAll, mode>>
  /\ UNCHANGED quiet
  /\ UNCHANGED <<error, found, tools>>

\* setup.py:350-362: the loop that asks for the email, then the update
GatherEnvEmail ==
  /\ pc = "env_email"
  /\ \E team_email \in TeamEmails :
       IF validate_email(team_email)
       THEN LET result == EnvResult(last.vals[K("environment")], team_email)
            IN /\ Return(Update(config, result), result)
               /\ last' = Answer("env", "accepted", result)
       ELSE /\ last' = Answer("env", "bad_email", Put(last.vals, K("team_email"), team_email))
            /\ UNCHANGED <<pc, ret, config>>
  /\ UNCHANGED <<rounds, keepAll, mode>>
  /\ UNCHANGED quiet
  /\ UNCHANGED <<error, found, tools>>

----------------------------------------------------------------------------
(* gather_aws_config *)

\* test_aws_credentials with a missing CLI or a timeout counted as a failure
test_aws_credentials_strict(reply) == reply = "zero"

\* test_aws_credentials: exit code 0 is True, another is False, and a
\* missing CLI or a timeout is True with a warning
test_aws_credentials(reply) == reply \in {"zero", "unavailable"}

\* setup.py:369-380; the dict returned reads aws_secret_access_key with [ ]
GatherAwsKeep ==
  /\ pc = "aws_keep"
  /\ \E keep \in YesNo :
       IF keep = "y"
       THEN /\ IF K("aws_secret_access_key") \in DOMAIN config
               THEN /\ Return(config,
                         AwsResult(config[K("aws_access_key_id")],
                                   config[K("aws_secret_access_key")],
                                   GetOr(config, K("aws_region"), DefaultRegion)))
                    /\ UNCHANGED error
               ELSE Crash(KeyError(K("aws_secret_access_key"))) /\ UNCHANGED config
            /\ last' = Answer("aws", "kept", EmptyDict)
       ELSE /\ pc' = "aws_configure"
            /\ last' = Answer("aws", "replace", EmptyDict)
            /\ UNCHANGED <<config, ret, error>>
  /\ UNCHANGED <<rounds, keepAll, mode>>
  /\ UNCHANGED quiet
  /\ UNCHANGED <<found, tools>>

\* setup.py:382-384 and 407
GatherAwsConfigure ==
  /\ pc = "aws_configure"
  /\ \E configure \in YesNo :
       IF configure = "y"
       THEN /\ pc' = "aws_input"
            /\ last' = Answer("aws", "asked", EmptyDict)
            /\ UNCHANGED <<config, ret>>
       ELSE /\ Return(config, EmptyDict)
            /\ last' = Answer("aws", "declined", EmptyDict)
  /\ UNCHANGED <<rounds, keepAll, mode>>
  /\ UNCHANGED quiet
  /\ UNCHANGED <<error, found, tools>>

\* GatherAwsInput with the method returning {} after a tuple that failed
GatherAwsInputGivesUp ==
  /\ pc = "aws_input"
  /\ \E a \in AwsTuples : \E reply \in AwsReplies :
       LET result == AwsResult(a.key, a.secret, a.region)
       IN IF test_aws_credentials(reply)
          THEN /\ Return(Update(config, result), result)
               /\ last' = Answer("aws", reply, result)
          ELSE /\ Return(config, EmptyDict)
               /\ last' = Answer("aws", reply, result)
  /\ UNCHANGED <<rounds, keepAll, mode>>
  /\ UNCHANGED quiet
  /\ UNCHANGED <<error, found, tools>>

\* setup.py:391-405: one round of the input loop
GatherAwsInput ==
  /\ pc = "aws_input"
  /\ \E a \in AwsTuples : \E reply \in AwsReplies :
       LET result == AwsResult(a.key, a.secret, a.region)
       IN IF test_aws_credentials(reply)
          THEN /\ Return(Update(config, result), result)
               /\ last' = Answer("aws", reply, result)
          ELSE /\ last' = Answer("aws", reply, result)
               /\ UNCHANGED <<pc, ret, config>>
  /\ UNCHANGED <<rounds, keepAll, mode>>
  /\ UNCHANGED quiet
  /\ UNCHANGED <<error, found, tools>>

----------------------------------------------------------------------------
(* gather_github_config *)

GithubKeepNeeds ==
  {K("github_installation_id"), K("github_private_key"), K("github_organization")}

\* the first of them, in the order the dict of setup.py:422-429 reads them,
\* that c does not hold
GithubKeepMissing(c) ==
  CASE K("github_installation_id") \notin DOMAIN c -> K("github_installation_id")
    [] K("github_private_key") \notin DOMAIN c -> K("github_private_key")
    [] OTHER -> K("github_organization")

\* setup.py:414-429; the dict returned reads three keys with [ ]
GatherGithubKeep ==
  /\ pc = "github_keep"
  /\ \E keep \in YesNo :
       IF keep = "y"
       THEN /\ IF GithubKeepNeeds \subseteq DOMAIN config
               THEN LET repo == GetOr(config, K("github_actions_repo"), DefaultRepo)
                    IN UNCHANGED error /\ Return(config,
                         MkDict(<< <<"github_app_id", config[K("github_app_id")]>>,
                           <<"github_installation_id", config[K("github_installation_id")]>>,
                           <<"github_private_key", config[K("github_private_key")]>>,
                           <<"github_organization", config[K("github_organization")]>>,
                           <<"github_actions_repo", repo>>,
                           <<"github_actions_webhook_url",
                             WebhookUrl(config[K("github_organization")], repo)>> >>))
               ELSE Crash(KeyError(GithubKeepMissing(config))) /\ UNCHANGED config
            /\ last' = Answer("github", "kept", EmptyDict)
       ELSE /\ pc' = "github_configure"
            /\ last' = Answer("github", "replace", EmptyDict)
            /\ UNCHANGED <<config, ret, error>>
  /\ UNCHANGED <<rounds, keepAll, mode>>
  /\ UNCHANGED quiet
  /\ UNCHANGED <<found, tools>>

\* GithubAccept with github_organization left out of the update
GithubAcceptDropsOrganization(a) ==
  LET result == GithubResult(a)
  IN /\ Return(Update(config, [k \in DOMAIN result \ {K("github_organization")} |-> result[k]]),
               EmptyDict)
     /\ last' = Answer("github", "accepted", result)

\* setup.py:441-467: the answers, and the update
GithubAccept(a) ==
  /\ Return(Update(config, GithubResult(a)), GithubResult(a))
  /\ last' = Answer("github", "accepted", GithubResult(a))

\* setup.py:431-469
GatherGithubConfigure ==
  /\ pc = "github_configure"
  /\ \/ \E a \in GithubAnswers : GithubAccept(a)
     \/ /\ Return(config, EmptyDict)
        /\ last' = Answer("github", "declined", EmptyDict)
  /\ UNCHANGED <<rounds, keepAll, mode>>
  /\ UNCHANGED quiet
  /\ UNCHANGED <<error, found, tools>>

----------------------------------------------------------------------------
(* gather_azure_config and gather_optional_configs *)

\* setup.py:475-497: the dict is returned, self.config is not touched
GatherAzureConfig ==
  /\ pc = "azure_configure"
  /\ \/ \E a \in AzureAnswers :
          /\ Return(config, AzureResult(a))
          /\ last' = Answer("azure", "supplied", AzureResult(a))
     \/ /\ Return(config, EmptyDict)
        /\ last' = Answer("azure", "declined", EmptyDict)
  /\ UNCHANGED <<rounds, keepAll, mode>>
  /\ UNCHANGED quiet
  /\ UNCHANGED <<error, found, tools>>

\* setup.py:499-519: the dict of the groups the user said yes to
OptionalResult(azdo, snyk) ==
  Update(IF azdo = <<>> THEN EmptyDict ELSE AzdoResult(azdo[1]),
         IF snyk = <<>> THEN EmptyDict ELSE SnykResult(snyk[1]))

GatherOptionalConfigs ==
  /\ pc = "optional"
  /\ \E azdo \in {<<>>} \cup {<<a>> : a \in AzdoAnswers} :
     \E snyk \in {<<>>} \cup {<<a>> : a \in SnykAnswers} :
       /\ Return(config, OptionalResult(azdo, snyk))
       /\ last' = Answer("optional", "supplied", OptionalResult(azdo, snyk))
  /\ UNCHANGED <<rounds, keepAll, mode>>
  /\ UNCHANGED quiet
  /\ UNCHANGED <<error, found, tools>>

----------------------------------------------------------------------------
(* configure_missing_components *)

\* setup.py:173-175
CmPort ==
  /\ pc = "cm_port"
  /\ IF ~PortPresent(config)
     THEN /\ pc' = PortEntry(config)
          /\ ret' = [label |-> "cm_env", merge |-> "no"]
     ELSE /\ pc' = "cm_env"
          /\ UNCHANGED ret
  /\ UNCHANGED <<config, last, rounds, keepAll, mode>>
  /\ UNCHANGED quiet
  /\ UNCHANGED <<error, found, tools>>

\* setup.py:177-179
CmEnv ==
  /\ pc = "cm_env"
  /\ IF ~EnvPresent(config)
     THEN /\ pc' = EnvEntry(config)
          /\ ret' = [label |-> "cm_aws", merge |-> "no"]
     ELSE /\ pc' = "cm_aws"
          /\ UNCHANGED ret
  /\ UNCHANGED <<config, last, rounds, keepAll, mode>>
  /\ UNCHANGED quiet
  /\ UNCHANGED <<error, found, tools>>

\* CmOptional with the gathering entered whatever the answer
CmOptionalUnasked(here, marker, entry, next) ==
  /\ pc = here
  /\ IF ~Has(config, K(marker))
     THEN \E answer \in YesNo :
            /\ last' = Answer(here, answer, EmptyDict)
            /\ pc' = entry
            /\ ret' = [label |-> next, merge |-> "no"]
     ELSE /\ pc' = next
          /\ UNCHANGED <<ret, last>>
  /\ UNCHANGED <<config, rounds, keepAll, mode>>
  /\ UNCHANGED quiet
  /\ UNCHANGED <<error, found, tools>>

\* one optional component of setup.py:182-195: asked about only if its
\* marker key is missing, gathered only on a yes
CmOptional(here, marker, entry, next) ==
  /\ pc = here
  /\ IF ~Has(config, K(marker))
     THEN \E answer \in YesNo :
            /\ last' = Answer(here, answer, EmptyDict)
            /\ IF answer = "y"
               THEN /\ pc' = entry
                    /\ ret' = [label |-> next, merge |-> "no"]
               ELSE /\ pc' = next
                    /\ UNCHANGED ret
     ELSE /\ pc' = next
          /\ UNCHANGED <<ret, last>>
  /\ UNCHANGED <<config, rounds, keepAll, mode>>
  /\ UNCHANGED quiet
  /\ UNCHANGED <<error, found, tools>>

CmAws == CmOptional("cm_aws", "aws_access_key_id", AwsEntry(config), "cm_github")

CmGithub == CmOptional("cm_github", "github_app_id", GithubEntry(config), "cm_azure")

CmAzure == CmOptional("cm_azure", "azure_client_id", "azure_configure", "cm_opt")

\* setup.py:197-198; configure_missing_components then returns to run() or
\* to the break of menu choice 9, and both go on at setup.py:835
CmOpt ==
  /\ pc = "cm_opt"
  /\ pc' = "optional"
  /\ ret' = [label |-> "gate_port", merge |-> "yes"]
  /\ UNCHANGED <<config, last, rounds, keepAll, mode>>
  /\ UNCHANGED quiet
  /\ UNCHANGED <<error, found, tools>>

----------------------------------------------------------------------------
(* interactive_config *)

MenuChoices == {"0", "1", "2", "3", "4", "5", "6", "7", "8", "9", "x"}

\* where a menu choice goes, and what is done with the dict that comes back
MenuTarget(choice) ==
  CASE choice = "1" -> [entry |-> PortEntry(config), merge |-> "no"]
    [] choice = "2" -> [entry |-> EnvEntry(config), merge |-> "no"]
    [] choice = "3" -> [entry |-> AwsEntry(config), merge |-> "no"]
    [] choice = "4" -> [entry |-> GithubEntry(config), merge |-> "no"]
    [] choice = "5" -> [entry |-> "azure_configure", merge |-> "no"]
    [] choice = "6" -> [entry |-> "optional", merge |-> "azdo"]
    [] choice = "7" -> [entry |-> "optional", merge |-> "snyk"]
    [] choice = "8" -> [entry |-> "menu_continue", merge |-> "no"]
    [] choice = "9" -> [entry |-> "cm_port", merge |-> "no"]
    [] choice = "0" -> [entry |-> "gate_port", merge |-> "no"]
    [] OTHER -> [entry |-> "menu", merge |-> "no"]

\* setup.py:121-163: one choice of the menu.  The model stops offering the
\* components after MaxMenu rounds.
InteractiveConfig ==
  /\ pc = "menu"
  /\ \E choice \in MenuChoices :
       /\ choice \in {"1", "2", "3", "4", "5", "6", "7", "8"} => rounds < MaxMenu
       /\ pc' = MenuTarget(choice).entry
       /\ ret' = IF choice \in {"1", "2", "3", "4", "5", "6", "7"}
                 THEN [label |-> "menu_continue", merge |-> MenuTarget(choice).merge]
                 ELSE NoRet
       /\ rounds' = IF choice \in {"1", "2", "3", "4", "5", "6", "7", "8"} THEN rounds + 1
                  ELSE rounds
       /\ keepAll' = (choice = "0" /\ rounds = 0)
       /\ last' = Answer("menu", choice, EmptyDict)
  /\ UNCHANGED <<config, mode>>
  /\ UNCHANGED quiet
  /\ UNCHANGED <<error, found, tools>>

\* setup.py:165-168
MenuContinue ==
  /\ pc = "menu_continue"
  /\ \E again \in YesNo : pc' = IF again = "y" THEN "menu" ELSE "gate_port"
  /\ UNCHANGED <<ret, config, last, rounds, keepAll, mode>>
  /\ UNCHANGED quiet
  /\ UNCHANGED <<error, found, tools>>

----------------------------------------------------------------------------
(* run(): the required components, the file, the tools *)

\* GatePort without the test of setup.py:835
GatePortSkipped ==
  /\ pc = "gate_port"
  /\ pc' = "gate_env"
  /\ UNCHANGED <<ret, config, last, rounds, keepAll, mode>>
  /\ UNCHANGED quiet
  /\ UNCHANGED <<error, found, tools>>

\* setup.py:835-837
GatePort ==
  /\ pc = "gate_port"
  /\ IF ~PortPresent(config)
     THEN /\ pc' = PortEntry(config)
          /\ ret' = [label |-> "gate_env", merge |-> "yes"]
     ELSE /\ pc' = "gate_env"
          /\ UNCHANGED ret
  /\ UNCHANGED <<config, last, rounds, keepAll, mode>>
  /\ UNCHANGED quiet
  /\ UNCHANGED <<error, found, tools>>

\* setup.py:839-841
GateEnv ==
  /\ pc = "gate_env"
  /\ IF ~EnvPresent(config)
     THEN /\ pc' = EnvEntry(config)
          /\ ret' = [label |-> "write", merge |-> "yes"]
     ELSE /\ pc' = "write"
          /\ UNCHANGED ret
  /\ UNCHANGED <<config, last, rounds, keepAll, mode>>
  /\ UNCHANGED quiet
  /\ UNCHANGED <<error, found, tools>>

\* Backup with the file removed where it should be renamed
BackupSkipped(fs) == [fs EXCEPT ![ConfigPath] = NoFile]

\* setup.py:559-561: the rename of an existing file to self.backup_file
Backup(fs) ==
  IF fs[ConfigPath] # NoFile
  THEN [fs EXCEPT ![backup_file] = fs[ConfigPath], ![ConfigPath] = NoFile]
  ELSE fs

\* write_config_file up to the first prompt of gather_team_config
WriteBackup ==
  /\ pc = "write"
  /\ preFile' = files[ConfigPath]
  /\ files' = Backup(files)
  /\ backupLog' = IF files[ConfigPath] # NoFile THEN Append(backupLog, backup_file)
                  ELSE backupLog
  /\ commits' = commits + 1
  /\ now' = now + 1
  /\ last' = NoLast
  /\ pc' = "team_teams"
  /\ UNCHANGED <<ret, config, backup_file, rounds, keepAll, mode, teams, committed,
                 origin, tofuLog, clientFile>>
  /\ UNCHANGED <<error, found, tools>>

\* setup.py:526-535: the team names, or the defaults
GatherTeams ==
  /\ pc = "team_teams"
  /\ \E entered \in TeamLists :
       teams' = IF entered = <<>> THEN DefaultTeams ELSE entered
  /\ pc' = "team_recipients"
  /\ UNCHANGED <<ret, config, files, now, backup_file, last, rounds, keepAll, mode, commits,
                 preFile, committed, origin, tofuLog, clientFile, backupLog>>
  /\ UNCHANGED <<error, found, tools>>

\* setup.py:538-552 and 565-640: the recipients, then the file.  A KeyError
\* leaves the file with what was written before it.
WriteFile ==
  /\ pc = "team_recipients"
  /\ \E entered \in RecipientLists :
       LET valid == SelectSeq(entered, validate_email)
       IN IF valid = <<>> /\ K("team_email") \notin DOMAIN config
          THEN /\ pc' = "crashed"
               /\ error' = KeyError(K("team_email"))
               /\ UNCHANGED <<files, committed>>
          ELSE LET recipients == IF valid = <<>> THEN <<config[K("team_email")]>> ELSE valid
                   out == WriteOut(config, teams, recipients, now)
               IN /\ files' = [files EXCEPT ![ConfigPath] = out.text]
                  /\ committed' = IF out.ok THEN Commit(config, teams, recipients)
                                  ELSE committed
                  /\ error' = IF out.ok THEN error ELSE KeyError(out.missing)
                  /\ pc' = IF out.ok THEN (IF commits = 1 THEN "client" ELSE "done")
                           ELSE "crashed"
  /\ UNCHANGED <<ret, config, now, backup_file, last, rounds, keepAll, mode, commits, preFile,
                 teams, origin, tofuLog, clientFile, backupLog>>
  /\ UNCHANGED <<found, tools>>

\* setup.py:845: create_port_api_client
CreatePortApiClient ==
  /\ pc = "client"
  /\ clientFile' = TRUE
  /\ pc' = "tofu_prompt"
  /\ UNCHANGED <<ret, config, files, now, backup_file, last, rounds, keepAll, mode, commits,
                 preFile, teams, committed, origin, tofuLog, backupLog>>
  /\ UNCHANGED <<error, found, tools>>

TofuSteps == <<"init", "validate", "plan">>

\* what subprocess.run(['tofu', ...], check=True) may meet: the exit status
ExitCodes == {0, 1}

\* setup.py:848-853: run_tofu_commands on a yes
TofuPrompt ==
  /\ pc = "tofu_prompt"
  /\ \E run_tofu \in YesNo : pc' = IF run_tofu = "y" THEN "tofu" ELSE "done"
  /\ UNCHANGED <<ret, config, files, now, backup_file, last, rounds, keepAll, mode, commits,
                 preFile, teams, committed, origin, tofuLog, clientFile, backupLog>>
  /\ UNCHANGED <<error, found, tools>>

\* where a tofu command that exited with rc leaves run_tofu_commands: a
\* non-zero status raises CalledProcessError, which setup.py:790-792 turns
\* into `return False`, and run() goes on to "Setup Complete"
AfterTofuIgnoresStatus(log, rc) ==
  IF Len(log) < Len(TofuSteps) THEN "tofu" ELSE "deploy_prompt"

AfterTofu(log, rc) ==
  IF rc # 0 THEN "done"
  ELSE IF Len(log) < Len(TofuSteps) THEN "tofu" ELSE "deploy_prompt"

\* setup.py:766-778: init, validate, plan, one command a step
TofuCommand ==
  /\ pc = "tofu"
  /\ \E rc \in ExitCodes :
       LET log == Append(tofuLog, [cmd |-> TofuSteps[Len(tofuLog) + 1], rc |-> rc])
       IN /\ tofuLog' = log
          /\ pc' = AfterTofu(log, rc)
  /\ UNCHANGED <<ret, config, files, now, backup_file, last, rounds, keepAll, mode, commits,
                 preFile, teams, committed, origin, clientFile, backupLog>>
  /\ UNCHANGED <<error, found, tools>>

\* DeployPrompt with the answer not looked at
DeployPromptUnasked ==
  /\ pc = "deploy_prompt"
  /\ \E deploy \in YesNo :
       /\ \E rc \in ExitCodes : tofuLog' = Append(tofuLog, [cmd |-> "apply", rc |-> rc])
       /\ last' = Answer("deploy", deploy, EmptyDict)
  /\ pc' = "done"
  /\ UNCHANGED <<ret, config, files, now, backup_file, rounds, keepAll, mode, commits,
                 preFile, teams, committed, origin, clientFile, backupLog>>
  /\ UNCHANGED <<error, found, tools>>

\* setup.py:781-788: apply on a yes
DeployPrompt ==
  /\ pc = "deploy_prompt"
  /\ \E deploy \in YesNo :
       /\ IF deploy = "y"
          THEN \E rc \in ExitCodes : tofuLog' = Append(tofuLog, [cmd |-> "apply", rc |-> rc])
          ELSE UNCHANGED tofuLog
       /\ last' = Answer("deploy", deploy, EmptyDict)
  /\ pc' = "done"
  /\ UNCHANGED <<ret, config, files, now, backup_file, rounds, keepAll, mode, commits,
                 preFile, teams, committed, origin, clientFile, backupLog>>
  /\ UNCHANGED <<error, found, tools>>

\* a caller of the class commits again: write_config_file on the same
\* PortSetup object, after a run() in which no tofu command was run
Recommit ==
  /\ pc = "done"
  /\ tofuLog = <<>>
  /\ commits < MaxCommits
  /\ pc' = "write"
  /\ UNCHANGED <<ret, config, files, now, backup_file, last, rounds, keepAll, mode, commits,
                 preFile, teams, committed, origin, tofuLog, clientFile, backupLog>>
  /\ UNCHANGED <<error, found, tools>>

Next ==
  \/ ValidateDependencies
  \/ LoadExistingConfig
  \/ ModePrompt
  \/ InitEnv
  \/ GatherPortKeep
  \/ GatherPortInput
  \/ GatherEnvKeep
  \/ GatherEnvChoice
  \/ GatherEnvEmail
  \/ GatherAwsKeep
  \/ GatherAwsConfigure
  \/ GatherAwsInput
  \/ GatherGithubKeep
  \/ GatherGithubConfigure
  \/ GatherAzureConfig
  \/ GatherOptionalConfigs
  \/ CmPort
  \/ CmEnv
  \/ CmAws
  \/ CmGithub
  \/ CmAzure
  \/ CmOpt
  \/ InteractiveConfig
  \/ MenuContinue
  \/ GatePort
  \/ GateEnv
  \/ WriteBackup
  \/ GatherTeams
  \/ WriteFile
  \/ CreatePortApiClient
  \/ TofuPrompt
  \/ TofuCommand
  \/ DeployPrompt
  \/ Recommit

Spec == Init /\ [][Next]_vars

----------------------------------------------------------------------------
(* The groups of keys, and what the properties below speak of *)

Keys(names) == {K(n) : n \in names}

PortKeys == Keys({"port_client_id", "port_client_secret", "port_base_url"})

EnvKeys == Keys({"environment", "team_email"})

AwsKeys == Keys({"aws_access_key_id", "aws_secret_access_key", "aws_region"})

AzureKeys ==
  Keys({"azure_client_id", "azure_client_secret", "azure_tenant_id", "azure_subscription_id"})

GithubKeys ==
  Keys({"github_app_id", "github_installation_id", "github_private_key",
        "github_organization", "github_actions_repo", "github_actions_webhook_url"})

AzdoKeys == Keys({"azdo_organization_url", "azdo_personal_token"})

SnykKeys == Keys({"snyk_token", "snyk_organization"})

GroupKeys ==
  PortKeys \cup EnvKeys \cup AwsKeys \cup AzureKeys \cup GithubKeys \cup AzdoKeys
  \cup SnykKeys

\* the keys write_config_file writes whatever the configuration holds
WriterKeys ==
  Keys({"enable_audit_logging", "drift_detection_schedule", "sync_schedule",
        "available_teams", "approval_recipients", "github_organization",
        "github_actions_repo", "dora_webhook_url", "dora_collection_webhook_url",
        "port_webhook_url"})

\* the quoted items a text holds, in order: what a reader of the list
\* [ "a", "b", ] finds between each pair of quotes
Elements(v) ==
  LET parts == Split(v, QT) IN [i \in 1..(Len(parts) \div 2) |-> parts[2 * i]]

\* the file found at the start was written by the wizard, and
\* load_existing_config has just read it
LoadedWritten == pc = "mode_prompt" /\ origin.written

\* from the rename on, and in every state that follows the file's writing
Committing == pc = "write" \/ commits > 0

RequiredPresent(c) ==
  /\ Has(c, K("port_client_id"))
  /\ Has(c, K("port_client_secret"))
  /\ Has(c, K("environment"))
  /\ Has(c, K("team_email"))

\* c holds the dict d, and outside the keys of d it is what c0 was
MergedInto(c0, d, c) ==
  /\ \A k \in DOMAIN d : k \in DOMAIN c /\ c[k] = d[k]
  /\ \A k \in (DOMAIN c0 \cup DOMAIN c) \ DOMAIN d :
       k \in DOMAIN c0 /\ k \in DOMAIN c /\ c[k] = c0[k]

----------------------------------------------------------------------------
(* The claims *)

\* C1: round trip.  Reading back with load_existing_config the file that
\* write_config_file wrote for a configuration gives that configuration:
\* every key it held with the value it had, the two lists with their items,
\* and no key besides those the file states.
C1_RoundTrip ==
  LoadedWritten =>
    /\ \A k \in DOMAIN origin.cfg : k \in DOMAIN config /\ config[k] = origin.cfg[k]
    /\ K("available_teams") \in DOMAIN config
    /\ Elements(config[K("available_teams")]) = origin.teams
    /\ K("approval_recipients") \in DOMAIN config
    /\ Elements(config[K("approval_recipients")]) = origin.recipients
    /\ DOMAIN config \subseteq DOMAIN origin.cfg \cup WriterKeys

\* C2: backup before overwrite.  When write_config_file finds a file at the
\* configuration path, the file is renamed to the backup path before
\* anything is written (while the team prompts wait, the configuration path
\* is empty), and from then on the backup path holds the text found.
C2_BackupBeforeOverwrite ==
  (commits > 0 /\ preFile # NoFile) =>
    /\ files[backup_file] = preFile
    /\ pc \in {"team_teams", "team_recipients"} => files[ConfigPath] = NoFile

\* a second full file stands at the configuration path, the first under the
\* backup name
C2_Witness ==
  /\ pc = "client"
  /\ preFile # NoFile
  /\ files[ConfigPath] \notin {NoFile, preFile}
  /\ files[backup_file] = preFile

\* C3: two commits by the same PortSetup object make two distinct backup
\* files: no rename goes to the target of an earlier rename, nor to the
\* configuration path.
C3_DistinctBackups ==
  /\ \A i \in 1..Len(backupLog) : backupLog[i] # ConfigPath
  /\ \A i, j \in 1..Len(backupLog) : i # j => backupLog[i] # backupLog[j]

\* C4: required-group gating.  The writing of the file, and every state
\* after it up to "Setup Complete", is reached only with port_client_id,
\* port_client_secret, environment and team_email present and non-empty;
\* and when one is missing at setup.py:835-841 the gathering step of its
\* group is entered before anything else.
C4_RequiredGroupGating ==
  /\ [](Committing => RequiredPresent(config))
  /\ [][/\ (pc = "gate_port" /\ ~PortPresent(config)) => pc' = "port_input"
        /\ (pc = "gate_env" /\ ~EnvPresent(config)) => pc' = "env_choice"]_vars

\* the run is complete for a hand-edited file in which the user changed
\* nothing: the credentials it lacked were gathered at the gate
C4_Witness ==
  /\ pc = "done"
  /\ mode = "update"
  /\ keepAll
  /\ ~origin.written
  /\ RequiredPresent(config)

\* C5: a pair that test_port_credentials rejects leaves gather_port_config
\* in its input loop and the configuration as it was.
C5_RejectedPairNotStored ==
  [][(pc = "port_input" /\ last' # last /\ last'.op = "port" /\ last'.outcome = "rejected")
       => (config' = config /\ pc' = "port_input")]_vars

\* a pair has been rejected and the loop waits for the next one
C5_Witness ==
  /\ pc = "port_input"
  /\ last.op = "port"
  /\ last.outcome = "rejected"
  /\ GetOr(config, K("port_client_id"), <<>>) # last.vals[K("port_client_id")]

\* the step from one state to the next accepts, and merges, the groups g
Accepts(g) ==
  /\ last' # last
  /\ \/ g = "port" /\ last'.op = "port" /\ last'.outcome = "accepted"
     \/ g = "env" /\ last'.op = "env" /\ last'.outcome = "accepted"
     \/ g = "aws" /\ last'.op = "aws" /\ pc = "aws_input" /\ pc' # "aws_input"
     \/ g = "github" /\ last'.op = "github" /\ last'.outcome = "accepted"
     \/ /\ g = "optional" /\ last'.op = "optional"
        /\ \/ ret.merge = "yes"
           \/ ret.merge = "azdo" /\ K("azdo_organization_url") \in DOMAIN last'.vals
           \/ ret.merge = "snyk" /\ K("snyk_token") \in DOMAIN last'.vals

\* the keys of the groups a step of g may accept
AcceptedKeySets(g) ==
  CASE g = "port" -> {PortKeys}
    [] g = "env" -> {EnvKeys}
    [] g = "aws" -> {AwsKeys}
    [] g = "github" -> {GithubKeys}
    [] OTHER -> {{}, AzdoKeys, SnykKeys, AzdoKeys \cup SnykKeys}

\* C6: group atomicity of merges.  A step that accepts a group (or, for the
\* optional services, the groups the user said yes to) gives every key of
\* the group its new value and leaves every other key as it was.
C6_GroupAtomicity ==
  [][\A g \in {"port", "env", "aws", "github", "optional"} :
       Accepts(g) =>
         /\ DOMAIN last'.vals \in AcceptedKeySets(g)
         /\ MergedInto(config, last'.vals, config')]_vars

\* menu choice 6 has merged both optional groups into a loaded configuration
C6_Witness ==
  /\ pc = "menu_continue"
  /\ last.op = "optional"
  /\ DOMAIN last.vals = AzdoKeys \cup SnykKeys
  /\ MergedInto(config, last.vals, config)
  /\ PortPresent(config)

\* C7: the private key survives a write and a load: after the load
\* github_private_key is the text that was written, and no line of the
\* block has become a key of its own.
C7_PrivateKeySurvives ==
  (LoadedWritten /\ K("github_private_key") \in DOMAIN origin.cfg) =>
    /\ K("github_private_key") \in DOMAIN config
    /\ config[K("github_private_key")] = origin.cfg[K("github_private_key")]
    /\ \A k \in DOMAIN config : k \in GroupKeys \cup WriterKeys

\* C8: a list survives a write and a load: after the load available_teams
\* and approval_recipients hold the items written, in order.
C8_ListsSurvive ==
  LoadedWritten =>
    /\ K("available_teams") \in DOMAIN config
    /\ K("approval_recipients") \in DOMAIN config
    /\ Elements(config[K("available_teams")]) = origin.teams
    /\ Elements(config[K("approval_recipients")]) = origin.recipients

\* C9: the values the user supplied at the Azure prompts, or at the Azure
\* DevOps and Snyk prompts, are in the configuration once the prompts are
\* done.
C9_SuppliedGroupConfigured ==
  (last.op \in {"azure", "optional"} /\ last.outcome = "supplied") =>
    \A k \in DOMAIN last.vals : k \in DOMAIN config /\ config[k] = last.vals[k]

\* C10: no data loss across runs.  A run in update mode in which the user
\* answers 0 at once, on a file the wizard wrote, writes every key of the
\* groups with the value the earlier run wrote.
C10_NoDataLoss ==
  (origin.written /\ mode = "update" /\ keepAll /\ committed.written) =>
    \A k \in GroupKeys \cap DOMAIN origin.cfg :
      k \in DOMAIN committed.cfg /\ committed.cfg[k] = origin.cfg[k]

\* C11: during a commit the configuration path is never empty: once
\* write_config_file has found a file there, every later state has a file
\* at the path, the old one or a new one.
C11_NoWindowWithoutFile ==
  (commits > 0 /\ preFile # NoFile) => files[ConfigPath] # NoFile

\* the exceptions a run can end with before write_config_file is called,
\* nothing on the disk having been touched (setup.py:376-380 and 422-429)
ErrorsBeforeCommit ==
  {KeyError(K("aws_secret_access_key"))} \cup {KeyError(k) : k \in GithubKeepNeeds}

\* C12: a write that fails after the rename ends the commit in an outcome of
\* its own, which is none of those of a run that touched nothing, and the
\* old configuration is under the backup name.
C12_WriteFailureIsDistinct ==
  (pc = "crashed" /\ commits > 0 /\ preFile # NoFile) =>
    /\ files[backup_file] = preFile
    /\ error \notin ErrorsBeforeCommit

\* the keys a group cannot do without
RequiredKeys(g) ==
  CASE g = "port" -> Keys({"port_client_id", "port_client_secret"})
    [] g = "env" -> EnvKeys
    [] g = "aws" -> Keys({"aws_access_key_id", "aws_secret_access_key"})
    [] g = "github" -> Keys({"github_app_id", "github_installation_id", "github_private_key",
                             "github_organization"})
    [] g = "azure" -> AzureKeys
    [] g = "azdo" -> AzdoKeys
    [] OTHER -> SnykKeys

\* every required key of the group is in c with a non-empty value
GroupComplete(g, c) == \A k \in RequiredKeys(g) : k \in DOMAIN c /\ c[k] # <<>>

\* C13: a catalog group of which a part is missing counts as absent
\* everywhere: check_existing_config reports the credentials as found only
\* if both are there, gather_port_config offers to keep them only if both
\* are there, and configure_missing_components and the final gate of run()
\* go to the input loop when one is missing.
C13_PartialCatalogIsAbsent ==
  /\ [](pc = "mode_prompt" => ("port" \in found <=> GroupComplete("port", config)))
  /\ [](pc = "port_keep" => GroupComplete("port", config))
  /\ [][(pc \in {"cm_port", "gate_port"} /\ ~GroupComplete("port", config))
          => pc' = "port_input"]_vars

\* the file held port_client_id = "abc" alone, nothing was reported as
\* found, the user chose to change nothing, and the final gate has sent the
\* run to the input loop
C13_Witness ==
  /\ pc = "port_input"
  /\ ret.label = "gate_env"
  /\ mode = "update"
  /\ keepAll
  /\ found = {}
  /\ DOMAIN config = {K("port_client_id")}
  /\ config[K("port_client_id")] = <<"abc">>

\* C14: a group is treated as present exactly when it is complete:
\* check_existing_config reports it as found if and only if every required
\* key is there and non-empty, and the keep-existing offers of
\* gather_aws_config and gather_github_config are made only for a complete
\* group.
C14_PresentIffComplete ==
  /\ pc = "mode_prompt" =>
       \A g \in {"port", "aws", "github", "azure", "azdo", "snyk"} :
         g \in found <=> GroupComplete(g, config)
  /\ pc = "aws_keep" => GroupComplete("aws", config)
  /\ pc = "github_keep" => GroupComplete("github", config)

\* the catalog pair c holds
PairOf(c) == [id |-> c[K("port_client_id")], secret |-> c[K("port_client_secret")]]

\* C15: the catalog group blocks on anything but a success.  A round of the
\* input loop of gather_port_config either stores the pair, and then the
\* API has answered with a token for that very pair, or it stores nothing
\* and stays in the loop: after a rejection, and after a request that
\* failed or timed out.  A configuration gathered from nothing holds no
\* pair but a valid one.
C15_CatalogBlocksUnlessValid ==
  /\ [][(pc = "port_input" /\ last' # last) =>
          \/ /\ last'.outcome = "accepted"
             /\ PairOf(last'.vals) \in ValidPortPairs
             /\ PortKeys \subseteq DOMAIN config'
             /\ PairOf(config') = PairOf(last'.vals)
          \/ /\ last'.outcome \in {"rejected", "unreachable"}
             /\ config' = config
             /\ pc' = "port_input"]_vars
  /\ [](mode \in {"first", "fresh"} /\ K("port_client_id") \in DOMAIN config
          => PairOf(config) \in ValidPortPairs)

\* the request for a pair has failed, and the loop waits for the next pair
\* with nothing stored
C15_Witness ==
  /\ pc = "port_input"
  /\ last.op = "port"
  /\ last.outcome = "unreachable"
  /\ mode = "first"
  /\ config = EmptyDict

\* C16: for AWS a check that cannot be made is a soft pass.  A round of the
\* input loop of gather_aws_config whose identity check found no CLI, or
\* timed out, stores the three values entered and leaves the loop; a round
\* whose check exited non-zero stores nothing and stays in the loop.
C16_AwsSoftPass ==
  [][(pc = "aws_input" /\ last' # last) =>
       /\ last'.outcome = "unavailable" =>
            /\ DOMAIN last'.vals = AwsKeys
            /\ MergedInto(config, last'.vals, config')
            /\ pc' # "aws_input"
       /\ last'.outcome = "nonzero" =>
            /\ config' = config
            /\ pc' = "aws_input"]_vars

\* the CLI was not there, and the values entered are in the configuration
C16_Witness ==
  /\ last.op = "aws"
  /\ last.outcome = "unavailable"
  /\ pc # "aws_input"
  /\ AwsKeys \subseteq DOMAIN config
  /\ \A k \in AwsKeys : config[k] = last.vals[k]

\* C17: the caller of load_existing_config can tell a first run from a file
\* that could not be read: run() takes the path of the initial setup ("No
\* existing configuration found") only when no file exists.
C17_FirstRunOnlyWithoutFile ==
  (mode = "first" /\ commits = 0) => files[ConfigPath] = NoFile

\* C18: with a required tool missing the run does one thing: it leaves the
\* dependency check for exit status 1.  No step loads the configuration,
\* asks anything, tests a credential, or creates or changes the
\* configuration file, a backup or the client script.
C18_MissingToolStopsRun ==
  [][~(RequiredTools \subseteq tools) =>
       /\ pc = "start"
       /\ pc' = "exit1"
       /\ UNCHANGED <<config, files, clientFile, last, found, mode, commits, backupLog,
                      tofuLog, error>>]_vars

\* the run has ended with status 1 on a machine without tofu, where a
\* configuration file exists
C18_Witness ==
  /\ pc = "exit1"
  /\ "tofu" \notin tools
  /\ files[ConfigPath] # NoFile
  /\ config = EmptyDict

\* the commands of run_tofu_commands, in the order of setup.py:768-784
TofuOrder == <<"init", "validate", "plan", "apply">>

\* C19: the tofu commands run in the order init, validate, plan, apply,
\* each once at most; a command that exits non-zero is the last one run;
\* and no step of run_tofu_commands changes the disk.
C19_TofuStopsAtFirstFailure ==
  /\ [](Len(tofuLog) <= Len(TofuOrder))
  /\ [](\A i \in 1..Len(tofuLog) : tofuLog[i].cmd = TofuOrder[i])
  /\ [](\A i \in 1..(Len(tofuLog) - 1) : tofuLog[i].rc = 0)
  /\ [][(pc \in {"tofu", "deploy_prompt"}) => (files' = files)]_vars

\* validate has failed after a good init, the run is over, and the file
\* is the one written
C19_Witness ==
  /\ pc = "done"
  /\ tofuLog = << [cmd |-> "init", rc |-> 0], [cmd |-> "validate", rc |-> 1] >>
  /\ committed.written
  /\ files[ConfigPath] # NoFile

\* the run goes on as long as it has a step to take: every prompt is
\* answered, every request and every command comes back
FairSpec == Spec /\ WF_vars(Next)

\* the process has ended with a non-zero exit status
NonZeroExit == pc \in {"exit1", "crashed"}

\* C20: a run that never gets a catalog pair validated does not stay at the
\* credential prompts for ever: if from some point on it is always in the
\* input loop of gather_port_config, it ends with a non-zero exit status.
C20_CredentialLoopTerminates ==
  <>[](pc = "port_input") => <>NonZeroExit

\* the gathering steps: the prompts of the gather_* methods of the groups
GatherLabels ==
  {"port_keep", "port_input", "env_keep", "env_choice", "env_email", "aws_keep",
   "aws_configure", "aws_input", "github_keep", "github_configure", "azure_configure",
   "optional"}

\* what a run of the wizard loads from a text at the configuration path
Loaded(text) == ParseConfig(EmptyDict, text)

\* a run in update mode whose first answer to the menu is 0 goes from the
\* menu to the tests of setup.py:835 and 839, and enters a gathering step
\* only if one of them finds its group missing
KeepAllGathers(c) == ~PortPresent(c) \/ ~EnvPresent(c)

\* C21: idempotent reconciliation.  A run in update mode on a file in which
\* the required groups are configured, with 0 as the first answer to the
\* menu, enters no gathering step; and a second such run, on the file the
\* first one left at the configuration path, enters none either.
C21_IdempotentReconciliation ==
  /\ (mode = "update" /\ keepAll /\ commits = 0 /\ files[ConfigPath] # NoFile
        /\ ~KeepAllGathers(Loaded(files[ConfigPath])))
       => pc \notin GatherLabels
  /\ (mode = "update" /\ keepAll /\ commits = 1 /\ pc \in {"client", "done", "crashed"}
        /\ preFile # NoFile /\ ~KeepAllGathers(Loaded(preFile))
        /\ files[ConfigPath] # NoFile)
       => ~KeepAllGathers(Loaded(files[ConfigPath]))

\* the three commands before the prompt, each with exit status 0
PlannedLog == [i \in 1..Len(TofuSteps) |-> [cmd |-> TofuSteps[i], rc |-> 0]]

\* C22: the apply step is gated.  `tofu apply` is run only by the step that
\* answers the deploy prompt with a yes, and only after init, validate and
\* plan have each exited with 0 in this run; an answer of no runs nothing;
\* and an apply in the log is the fourth command, after three that succeeded
\* and a yes.
C22_ApplyIsGated ==
  /\ [][(tofuLog' # tofuLog /\ tofuLog'[Len(tofuLog')].cmd = "apply") =>
          /\ pc = "deploy_prompt"
          /\ tofuLog = PlannedLog
          /\ last' = Answer("deploy", "y", EmptyDict)]_vars
  /\ [][(pc = "deploy_prompt" /\ last' = Answer("deploy", "n", EmptyDict))
          => tofuLog' = tofuLog]_vars
  /\ [](\A i \in 1..Len(tofuLog) :
          tofuLog[i].cmd = "apply" =>
            /\ SubSeq(tofuLog, 1, i - 1) = PlannedLog
            /\ last = Answer("deploy", "y", EmptyDict))

\* the plan was made, the user said yes, and apply has run
C22_Witness ==
  /\ pc = "done"
  /\ last = Answer("deploy", "y", EmptyDict)
  /\ SubSeq(tofuLog, 1, 3) = PlannedLog
  /\ Len(tofuLog) = 4
  /\ tofuLog[4].cmd = "apply"

\* the prompts of the gather_* method of a group ("optional" stands for
\* gather_optional_configs, which asks for Azure DevOps and Snyk)
GroupLabels(g) ==
  CASE g = "port" -> {"port_keep", "port_input"}
    [] g = "env" -> {"env_keep", "env_choice", "env_email"}
    [] g = "aws" -> {"aws_keep", "aws_configure", "aws_input"}
    [] g = "github" -> {"github_keep", "github_configure"}
    [] g = "azure" -> {"azure_configure"}
    [] OTHER -> {"optional"}

\* the step from one state to the next calls the gather_* method of g
Enters(g) == pc \notin GroupLabels(g) /\ pc' \in GroupLabels(g)

\* the menu choices of interactive_config that stand for g
ChoicesOf(g) ==
  CASE g = "port" -> {"1"}
    [] g = "env" -> {"2"}
    [] g = "aws" -> {"3"}
    [] g = "github" -> {"4"}
    [] g = "azure" -> {"5"}
    [] OTHER -> {"6", "7"}

\* the step picks g in the menu
MenuSelects(g) ==
  pc = "menu" /\ \E choice \in ChoicesOf(g) : last' = Answer("menu", choice, EmptyDict)

\* the place of g in configure_missing_components
CmLabel(g) ==
  CASE g = "aws" -> "cm_aws"
    [] g = "github" -> "cm_github"
    [] OTHER -> "cm_azure"

\* the step answers yes to "... not configured. Configure now?" for g
CmSelects(g) == pc = CmLabel(g) /\ last' = Answer(CmLabel(g), "y", EmptyDict)

\* a required group that is missing when configure_missing_components or
\* the gate of run() looks for it is collected
RequiredMissingCollected ==
  /\ (pc \in {"cm_port", "gate_port"} /\ ~PortPresent(config)) => Enters("port")
  /\ (pc \in {"cm_env", "gate_env"} /\ ~EnvPresent(config)) => Enters("env")

\* fresh start collects both required groups anew
FreshCollectsRequired ==
  /\ (pc = "mode_prompt" /\ mode' = "fresh") => Enters("port")
  /\ (mode = "fresh" /\ pc = "init_env") => Enters("env")

NoEntryLine(raw) ==
  \/ \A i \in 1..Len(raw) : raw[i] = SP
  \/ \E i \in 1..Len(raw) : raw[i] = HASH /\ \A j \in 1..(i - 1) : raw[j] = SP
  \/ EQ \notin Range(raw)

\* the text of a line before its first '=', trimmed
TextBeforeEq(raw) == Strip(SubSeq(raw, 1, FirstEq(raw) - 1))

\* the text of a line after its first '=', trimmed, without the quotes
\* around it
TextAfterEq(raw) == StripQuotes(Strip(SubSeq(raw, FirstEq(raw) + 1, Len(raw))))

\* C24: decoding is lenient and line-oriented.  load_existing_config ends
\* no run with an exception; after it the configuration holds one entry for
\* each key that a line states, a line being neither blank, nor a comment,
\* nor without '=': the key is the trimmed text before the line's first '=',
\* the value the trimmed text after it without the quotes around it (of the
\* last such line, if several state the key); and it holds nothing else.
C24_LenientLineDecoding ==
  /\ pc = "crashed" => mode # "none"
  /\ pc = "mode_prompt" =>
       LET lines == SplitLines(files[ConfigPath])
           entries == {i \in 1..Len(lines) : ~NoEntryLine(lines[i])}
       IN /\ error = NoError
          /\ DOMAIN config = {TextBeforeEq(lines[i]) : i \in entries}
          /\ \A i \in entries :
               (\A j \in entries : TextBeforeEq(lines[j]) = TextBeforeEq(lines[i]) => j <= i)
                 => config[TextBeforeEq(lines[i])] = TextAfterEq(lines[i])

\* the hand-written file has been read: the commented line gave no key, the
\* indented secret is there, and the second environment line has won
C24_Witness ==
  /\ pc = "mode_prompt"
  /\ files[ConfigPath] = HandEditedNoBaseUrl
  /\ DOMAIN config = Keys({"port_client_id", "port_client_secret", "environment", "team_email"})
  /\ config[K("port_client_secret")] = <<"port-secret-old">>
  /\ config[K("environment")] = <<"dev">>

\* the keys the f-strings of write_config_file read with self.config[...]
\* for the configuration c: those of the required sections, and those of
\* each section whose marker key c holds
KeysRead(c) ==
  LET st == Statements(c, <<>>, <<>>, 0) IN UNION {st[i].needs : i \in 1..Len(st)}

\* C25: the commit never fails on a missing key.  Whenever write_config_file
\* starts, the configuration holds every key the method reads with
\* self.config[...], and no run ends in an exception after the rename.
C25_CommitNeverMissesKey ==
  /\ pc = "write" => KeysRead(config) \subseteq DOMAIN config
  /\ ~(pc = "crashed" /\ commits > 0)

\* an address of the form local-part@domain.tld: one "@" with text before
\* it, and after it a domain, a "." and a top-level domain of two letters or
\* more
HasAddressForm(email) ==
  \E a \in 2..(Len(email) - 3) :
    /\ email[a] = AT
    /\ \A i \in 1..Len(email) : email[i] = AT => i = a
    /\ email[1] # DOT
    /\ email[a + 1] # DOT
    /\ email[Len(email) - 1] = DOT
    /\ email[Len(email)] \in {"io", "team", "ops", "acme", "old"}

\* C26: malformed input for the environment group is asked for again and
\* never stored.  A step of gather_environment_config that changes the
\* configuration stores an environment among dev, staging and prod and a
\* team_email of the form local-part@domain.tld; a choice outside 1..3 and
\* an ill-formed address leave the configuration as it was and the run at
\* the same prompt.  A configuration gathered from nothing holds no other
\* environment and no ill-formed team_email.
C26_MalformedEnvNotStored ==
  /\ [][(pc \in {"env_choice", "env_email"} /\ last' # last) =>
          /\ config' # config =>
               /\ last'.outcome = "accepted"
               /\ config'[K("environment")] \in {<<"dev">>, <<"staging">>, <<"prod">>}
               /\ HasAddressForm(config'[K("team_email")])
          /\ last'.outcome = "bad_choice" => (config' = config /\ pc' = "env_choice")
          /\ (pc = "env_email" /\ ~HasAddressForm(last'.vals[K("team_email")])) =>
               (last'.outcome = "bad_email" /\ config' = config /\ pc' = "env_email")]_vars
  /\ []((mode \in {"first", "fresh"} /\ K("environment") \in DOMAIN config) =>
          /\ config[K("environment")] \in {<<"dev">>, <<"staging">>, <<"prod">>}
          /\ HasAddressForm(config[K("team_email")]))

\* an address with a top-level domain of one letter was refused: the prompt
\* is asked again, and the configuration holds no environment yet
C26_Witness ==
  /\ pc = "env_email"
  /\ last.op = "env"
  /\ last.outcome = "bad_email"
  /\ last.vals[K("team_email")] = <<"team", AT, "io", DOT, "x">>
  /\ K("environment") \notin DOMAIN config

\* C27: no automatic retry and no silent acceptance in the AWS loop.  A
\* round of the input loop of gather_aws_config has one answer of the
\* identity check for the tuple entered, and that answer decides: a non-zero
\* exit stores nothing and leaves the run at the prompt of the loop; the
\* loop is left only by the return to the caller, with the tuple of a check
\* that did not fail stored; and a yes to the question of the method leads
\* to the loop.
C27_AwsLoopKeepsAsking ==
  [][/\ (pc = "aws_input" /\ last' # last) =>
          /\ last'.op = "aws"
          /\ last'.outcome \in AwsReplies
          /\ DOMAIN last'.vals = AwsKeys
          /\ last'.outcome = "nonzero" => (config' = config /\ pc' = "aws_input" /\ ret' = ret)
          /\ pc' # "aws_input" =>
               /\ last'.outcome \in {"zero", "unavailable"}
               /\ pc' = ret.label
               /\ \A k \in AwsKeys : k \in DOMAIN config' /\ config'[k] = last'.vals[k]
     /\ (pc = "aws_configure" /\ last'.outcome = "asked") => pc' = "aws_input"]_vars

\* a tuple has failed the check in a run that had no AWS settings: the loop
\* asks again and nothing of the tuple is stored
C27_Witness ==
  /\ pc = "aws_input"
  /\ last.op = "aws"
  /\ last.outcome = "nonzero"
  /\ AwsKeys \cap DOMAIN config = {}

\* a set of dicts, and the empty dict for a group the user passes over
OrNone(S) == S \cup {EmptyDict}

\* the configurations that the answers of one run make from nothing: a pair
\* the API accepts, an environment and a well-formed address, and of each of
\* AWS, GitHub, Azure DevOps and Snyk either what the user entered or nothing
EnteredConfigs ==
  {p @@ e @@ a @@ g @@ z @@ s :
     p \in {PortResult(x.id, x.secret) : x \in PortPairs \cap ValidPortPairs},
     e \in {EnvResult(x[1], x[2]) :
              x \in {<<"dev">>, <<"staging">>, <<"prod">>}
                    \X {m \in TeamEmails : HasAddressForm(m)}},
     a \in OrNone({AwsResult(x.key, x.secret, x.region) : x \in AwsTuples}),
     g \in OrNone({GithubResult(x) : x \in GithubAnswers}),
     z \in OrNone({AzdoResult(x) : x \in AzdoAnswers}),
     s \in OrNone({SnykResult(x) : x \in SnykAnswers})}

\* C28: fresh start discards the loaded configuration.  After the answer
\* 'fresh' the configuration given to write_config_file is one that the
\* answers of this run make from nothing, whatever the file held, and no
\* keep-existing offer is made.
C28_FreshDiscardsLoaded ==
  mode = "fresh" =>
    /\ pc \notin {"port_keep", "env_keep", "aws_keep", "github_keep"}
    /\ Committing => config \in EnteredConfigs
    /\ pc = "port_input" => config = EmptyDict

\* a fresh start on a file that held AWS credentials comes to the commit
\* with the pair entered in this run and without AWS
C28_Witness ==
  /\ mode = "fresh"
  /\ pc = "write"
  /\ K("aws_access_key_id") \in DOMAIN origin.cfg
  /\ K("aws_access_key_id") \notin DOMAIN config
  /\ config[K("port_client_id")] = <<"port-id-new">>

\* the keep-existing offers of the four gather_* methods that make one
KeepLabels == {"port_keep", "env_keep", "aws_keep", "github_keep"}

\* C29: keeping what exists changes nothing and validates nothing.  A step
\* that answers yes to a keep-existing offer leaves the configuration as it
\* was and goes straight back to the caller of the method (or ends the run
\* with the KeyError of the dict it builds): it passes through no input
\* loop, and no answer of a credential check comes with it.
C29_KeepChangesNothing ==
  [][(pc \in KeepLabels /\ pc' # pc /\ last'.outcome = "kept") =>
       /\ config' = config
       /\ pc' \in {ret.label, "crashed"}
       /\ last'.vals = EmptyDict
       /\ last'.outcome \notin AwsReplies \cup {"token", "rejected", "unreachable"}]_vars

\* the catalog pair of a hand-written file without port_base_url was kept
\* in the menu: the configuration still has no port_base_url
C29_Witness ==
  /\ pc = "menu_continue"
  /\ last = Answer("port", "kept", EmptyDict)
  /\ PortPresent(config)
  /\ K("port_base_url") \notin DOMAIN config

\* C30: the team settings of every commit are never empty and hold no
\* malformed address.  available_teams is the names entered, in their
\* order, or the five default teams if none was entered;
\* approval_recipients is the well-formed addresses among those entered, in
\* their order, or team_email alone if there is none; and every recipient
\* written is a well-formed address.
C30_TeamSettingsWellFormed ==
  committed.written =>
    /\ committed.teams # <<>>
    /\ committed.teams \in (TeamLists \ {<<>>}) \cup {DefaultTeams}
    /\ committed.recipients # <<>>
    /\ committed.recipients \in
         {r \in {SelectSeq(entered, HasAddressForm) : entered \in RecipientLists} : r # <<>>}
         \cup {<< committed.cfg[K("team_email")] >>}
    /\ \A i \in 1..Len(committed.recipients) : HasAddressForm(committed.recipients[i])

====
